---- MODULE Spec2Model ----
(***************************************************************************)
(* Model of src/TriangleTiling.py: the classes MultiTriangleTiling and     *)
(* RegularMultiTriangleTiling (logarithmic triangle tilings).              *)
(*                                                                         *)
(* Numbers.  The program computes in IEEE doubles with irrational sines    *)
(* and cosines.  The model computes in exact fixed-point arithmetic: a     *)
(* coordinate x of the program is the integer x * Unit, a rotation matrix  *)
(* is a rational rotation [c, s, d] (cos = c/d, sin = s/d, c*c + s*s =     *)
(* d*d) and the scaling factor is k/2.  Unit is chosen so that every       *)
(* division made while the triangles of an arm are built is exact, so "="  *)
(* in the model is the program's "equal up to rounding".                   *)
(*                                                                         *)
(* Arrays.  A NumPy array of shape (3, 2) is a sequence of three points    *)
(* <<x, y>>; rows 0, 1, 2 of the program (P_C, P_B, P_A) are elements 1,   *)
(* 2, 3 of the sequence.  In-place operators on overlapping views follow   *)
(* NumPy's documented semantics (the result is as if the operands did not  *)
(* overlap); a view keeps denoting the row it was taken from.              *)
(***************************************************************************)
EXTENDS Integers, Sequences, FiniteSets, TLC

(* ------------------------------ bounds -------------------------------- *)

\* largest arm length N passed to get_triangles / get_all_triangles
MaxN == 3

\* candidate scaling factors are k/2 for k in 1..KMax
KMax == 4

\* number of method calls made on one instance
MaxCalls == 3

(* --------------------------- exact numbers ---------------------------- *)

RECURSIVE Pow(_, _)
Pow(x, k) == IF k = 0 THEN 1 ELSE x * Pow(x, k - 1)

\* one unit of length of the program, in model integers
Unit == 5 * Pow(10, MaxN - 1)

\* a finite double and the value the program gets from x / 0 or sin(inf)
Num(v) == [nan |-> FALSE, v |-> v]
NaN == [nan |-> TRUE, v |-> 0]

\* the rational rotations standing for ( cos, sin ) of an angle
Rots ==
  { [c |-> 3, s |-> 4, d |-> 5],
    [c |-> 4, s |-> 3, d |-> 5],
    [c |-> 0, s |-> 1, d |-> 1] }

\* the rotations standing for ( cos, sin ) of the input angle C
RotsC ==
  { [c |-> 3, s |-> 4, d |-> 5],
    [c |-> 0, s |-> 1, d |-> 1] }

\* ( cos, sin ) of a non-finite angle
NaNRot == [c |-> 0, s |-> 0, d |-> 0]

\* side ratios ( a, b ) and the degree n of a * s^n + b * s - 1 whose
\* positive real roots are all of the form k/2:
\*   ( 2, 1, 2) -> {1/2}        (-2, 3, 2) -> {1/2, 1}    ( 2, -1, 2) -> {1}
\*   (-1, 1, 2) -> {}           ( 4, 1, 3) -> {1/2}       ( 2, -1, 3) -> {1}
\*   ( 1, 1, 1) -> {1/2}
Polys ==
  { [a |-> 2, b |-> 1, deg |-> 2],
    [a |-> -2, b |-> 3, deg |-> 2],
    [a |-> 2, b |-> -1, deg |-> 2],
    [a |-> -1, b |-> 1, deg |-> 2],
    [a |-> 4, b |-> 1, deg |-> 3],
    [a |-> 2, b |-> -1, deg |-> 3],
    [a |-> 1, b |-> 1, deg |-> 1] }

\* the arm counts m for which cos and sin of i * 2 * pi / m are integers
Arms == {1, 2, 4}

\* the recursion depths n
Depths == 1..3

(* ------------------------------ points -------------------------------- *)

Origin == <<0, 0>>

Add(p, q) == <<p[1] + q[1], p[2] + q[2]>>

Sub(p, q) == <<p[1] - q[1], p[2] - q[2]>>

\* np.dot( rot_mat, p ) for rot_mat = [ [ cos, sin ], [ -sin, cos ] ]
Dot(rot, p) ==
  << (rot.c * p[1] + rot.s * p[2]) \div rot.d,
     ((0 - rot.s) * p[1] + rot.c * p[2]) \div rot.d >>

\* p * s for the scaling factor s = k/2
Scale(k, p) == << (p[1] * k) \div 2, (p[2] * k) \div 2 >>

\* array op= row, applied to every row of a ( 3, 2 ) array
AddAll(t, p) == [r \in 1..Len(t) |-> Add(t[r], p)]

SubAll(t, p) == [r \in 1..Len(t) |-> Sub(t[r], p)]

\* np.zeros( ( 3, 2 ) ) and np.zeros( ( N, 3, 2 ) )
ZeroTriangle == <<Origin, Origin, Origin>>

Zeros(len) == [i \in 1..len |-> ZeroTriangle]

\* Python indexing of an axis of the given length: negative indices count
\* from the end; the result is a 0-based position, valid when InRange
PyIndex(len, i) == IF i < 0 THEN len + i ELSE i

InRange(len, i) == PyIndex(len, i) >= 0 /\ PyIndex(len, i) < len

\* arr[ i, row ] for an array of triangles
At(arr, i, row) == arr[PyIndex(Len(arr), i) + 1][row + 1]

(* --------------------------- next_triangle ---------------------------- *)

\* variant of TranslateToOrigin: the subtraction reads rot_shift row by row
\* while it is being overwritten, so that only row 0 is moved
TranslateToOriginStale(t) ==
  [r \in 1..Len(t) |-> IF r = 1 THEN Sub(t[1], t[1]) ELSE Sub(t[r], Origin)]

\* rot_shift = _next_triangle[ 0 ] ; _next_triangle -= rot_shift
\* rot_shift is a view of row 0 of the array it is subtracted from: every
\* row loses the old row 0, and rot_shift reads ( 0, 0 ) from here on
TranslateToOrigin(t) == SubAll(t, t[1])

\* _next_triangle[ i ] = np.dot( rot_mat, _next_triangle[ i ] ), i = 0, 1, 2
Rotate(rot, t) == [r \in 1..Len(t) |-> Dot(rot, t[r])]

\* _next_triangle *= self.s
ScaleAll(k, t) == [r \in 1..Len(t) |-> Scale(k, t[r])]

\* _next_triangle += rot_shift, rot_shift still the view of row 0
TranslateBack(t) == AddAll(t, t[1])

\* variant of next_triangle: rot_shift is a copy of the P_C of the argument
next_triangle_copied_shift(par, triangle) ==
  LET t3 == ScaleAll(par.s, Rotate(par.A, SubAll(triangle, triangle[1])))
  IN  AddAll(AddAll(t3, triangle[1]), Sub(triangle[2], triangle[1]))

next_triangle(par, triangle) ==
  LET t1 == TranslateToOrigin(triangle)
      t2 == Rotate(par.A, t1)
      t3 == ScaleAll(par.s, t2)
      t4 == TranslateBack(t3)
  IN  \* _next_triangle += ( triangle[ 1 ] - triangle[ 0 ] )
      AddAll(t4, Sub(triangle[2], triangle[1]))

(* --------------------------- get_triangles ---------------------------- *)

\* the first triangle: P_C = ( 0, 0 ), P_B = a * ( cos C, sin C ),
\* P_A = ( b, 0 )
first_triangle(par) ==
  << Origin,
     << (par.a * par.C.c * Unit) \div par.C.d,
        (par.a * par.C.s * Unit) \div par.C.d >>,
     << par.b * Unit, 0 >> >>

\* variant of NewBuffer: an array of the right length is kept
NewBufferReused(old, len) == IF Len(old) = len THEN old ELSE Zeros(len)

\* self.triangles = np.zeros( ( self.N, 3, 2 ) ): a new array, whatever
\* self.triangles held before
NewBuffer(old, len) == Zeros(len)

\* triangle += ( self.triangles[ i - 1, 1 ] - self.triangles[ 0, 0 ] )
ArmShift(buf, i) == Sub(At(buf, i - 1, 1), At(buf, 0, 0))

\* the loop of get_triangles from iteration i on, triangle being the
\* triangle computed for position i
RECURSIVE arm_loop(_, _, _, _)
arm_loop(par, buf, triangle, i) ==
  IF i >= Len(buf)
    THEN buf
    ELSE LET stored == [buf EXCEPT ![i + 1] = triangle]
             nxt == next_triangle(par, triangle)
         IN  arm_loop(par, stored, AddAll(nxt, ArmShift(stored, i)), i + 1)

\* self.triangles after get_triangles( N )
get_triangles(par, old, len) ==
  arm_loop(par, NewBuffer(old, len), first_triangle(par), 0)

(* ------------------------------- get_s -------------------------------- *)

\* the solutions of a * s^n + b * s - 1 = 0 for a positive real s, as
\* numerators k of s = k/2.  With a coefficient that is not finite the
\* equation SymPy is given is the number nan, for which solve is taken to
\* return the empty list, as it does for any non-zero number.
Roots(a, b, deg) ==
  IF a.nan \/ b.nan
    THEN {}
    ELSE { k \in 1..KMax :
             a.v * Pow(k, deg) + b.v * k * Pow(2, deg - 1) - Pow(2, deg) = 0 }

(* ------------------------- get_all_triangles -------------------------- *)

\* ( cos, sin ) of theta = self.theta_m * i, theta_m = 2 * pi / m, in
\* quarter turns
ArmRot(mm, i) ==
  LET q == ((4 \div mm) * i) % 4
  IN  [c |-> CASE q = 0 -> 1 [] q = 1 -> 0 [] q = 2 -> 0 - 1 [] OTHER -> 0,
       s |-> CASE q = 0 -> 0 [] q = 1 -> 1 [] q = 2 -> 0 [] OTHER -> 0 - 1,
       d |-> 1]

\* variant of Anchor: the anchor is taken in arm 0
AnchorInFirstArm(all, i, nn) ==
  IF InRange(Len(all[1]), nn - 1)
    THEN [ok |-> TRUE, p |-> At(all[1], nn - 1, 1)]
    ELSE [ok |-> FALSE, p |-> Origin]

\* variant of Anchor: an index past the end of the arm denotes its last
\* triangle
AnchorClipped(all, i, nn) ==
  IF Len(all[i]) > 0
    THEN [ok |-> TRUE,
          p |-> At(all[i], IF nn - 1 < Len(all[i]) THEN nn - 1 ELSE 0 - 1, 1)]
    ELSE [ok |-> FALSE, p |-> Origin]

\* self.all_triangles[ i - 1, self.n - 1, 1 ]: the point, or ok = FALSE
\* when the index is out of bounds (IndexError)
Anchor(all, i, nn) ==
  IF InRange(Len(all[i]), nn - 1)
    THEN [ok |-> TRUE, p |-> At(all[i], nn - 1, 1)]
    ELSE [ok |-> FALSE, p |-> Origin]

\* the arm i >= 1 before it is anchored: a copy of self.triangles,
\* translated by P_A of its first triangle and rotated by theta
rotated_arm(mm, arm, i) ==
  LET rot_shift == At(arm, 0, 2)
  IN  [t \in 1..Len(arm) |-> Rotate(ArmRot(mm, i), SubAll(arm[t], rot_shift))]

\* new_arm += anchor
anchored_arm(arm, p) == [t \in 1..Len(arm) |-> AddAll(arm[t], p)]

\* variant of assemble_step: new_arm is self.triangles itself, not a copy
assemble_step_aliased(par, st, i) ==
  IF ~InRange(Len(st.triangles), 0) \/ ~Anchor(st.all, i, par.n).ok
    THEN [st EXCEPT !.err = "IndexError"]
    ELSE LET new_arm == anchored_arm(rotated_arm(par.m, st.triangles, i),
                                     Anchor(st.all, i, par.n).p)
         IN  [triangles |-> new_arm,
              all |-> [st.all EXCEPT ![i + 1] = new_arm],
              err |-> "none"]

\* one iteration of the loop over arms, for the arm i >= 1; st holds
\* self.triangles, self.all_triangles and the exception raised, if any
assemble_step(par, st, i) ==
  IF ~InRange(Len(st.triangles), 0)
    THEN \* rot_shift = self.triangles[ 0, 2 ] of an empty array
         [st EXCEPT !.err = "IndexError"]
    ELSE IF ~Anchor(st.all, i, par.n).ok
      THEN \* new_arm += self.all_triangles[ i - 1, self.n - 1, 1 ]
           [st EXCEPT !.err = "IndexError"]
      ELSE [st EXCEPT !.all[i + 1] =
              anchored_arm(rotated_arm(par.m, st.triangles, i),
                           Anchor(st.all, i, par.n).p)]

RECURSIVE assemble_loop(_, _, _)
assemble_loop(par, st, i) ==
  IF i >= par.m \/ st.err # "none"
    THEN st
    ELSE assemble_loop(par, assemble_step(par, st, i), i + 1)

\* variant of get_all_triangles: the arm length is checked against n before
\* the arm is built
get_all_triangles_validated(par, old, len) ==
  LET tri == get_triangles(par, old, len)
      all0 == [arm \in 1..par.m |-> IF arm = 1 THEN tri ELSE Zeros(len)]
  IN  IF len < par.n
        THEN [triangles |-> old,
              all |-> [arm \in 1..par.m |-> Zeros(len)],
              err |-> "IndexError"]
        ELSE assemble_loop(par,
               [triangles |-> tri, all |-> all0, err |-> "none"], 1)

\* self.triangles, self.all_triangles and the exception after
\* get_all_triangles( N )
get_all_triangles(par, old, len) ==
  LET tri == get_triangles(par, old, len)
      all0 == [arm \in 1..par.m |-> IF arm = 1 THEN tri ELSE Zeros(len)]
  IN  assemble_loop(par, [triangles |-> tri, all |-> all0, err |-> "none"], 1)

(* ------------------------------- state -------------------------------- *)

VARIABLES
  status,         \* "new", "ready" (constructed) or "failed" (__init__ raised)
  cls,            \* the class of the instance
  n, m,           \* self.n, self.m
  A, C,           \* ( cos, sin ) of self.A and of self.C
  a, b,           \* self.a, self.b
  s,              \* self.s: <<>> while the attribute is not set, else <<k>>
  N,              \* self.N, -1 while the attribute is not set
  triangles,      \* self.triangles, <<>> while the attribute is not set
  all_triangles,  \* self.all_triangles, <<>> while the attribute is not set
  err,            \* the exception raised by the last call, or "none"
  result,         \* the array returned by the last get_all_triangles
  lastOp,         \* the method called last
  calls,          \* the number of method calls made on the instance
  nt_in, nt_out   \* argument and value of the last next_triangle

vars ==
  << status, cls, n, m, A, C, a, b, s, N, triangles, all_triangles, err, result,
     lastOp, calls, nt_in, nt_out >>

\* the attributes the methods read
Par == [n |-> n, m |-> m, A |-> A, C |-> C, a |-> a.v, b |-> b.v, s |-> s[1]]

Init ==
  /\ status = "new"
  /\ cls = "none"
  /\ n = 0 /\ m = 0
  /\ A = NaNRot /\ C = NaNRot
  /\ a = NaN /\ b = NaN
  /\ s = <<>>
  /\ N = 0 - 1
  /\ triangles = <<>>
  /\ all_triangles = <<>>
  /\ err = "none"
  /\ result = <<>>
  /\ lastOp = "none"
  /\ calls = 0
  /\ nt_in = ZeroTriangle /\ nt_out = ZeroTriangle

\* get_s: s = solve( ... ) ; self.s = float( s[ 0 ] ).  The order of the
\* list solve returns is not specified: any root may come first.
GetS(aa, bb, nn) ==
  IF Roots(aa, bb, nn) = {}
    THEN /\ s' = <<>>
         /\ err' = "IndexError"
         /\ status' = "failed"
    ELSE /\ \E k \in Roots(aa, bb, nn) : s' = <<k>>
         /\ err' = "none"
         /\ status' = "ready"

\* variant of DeriveA: the divisor n - 1 is never less than 1
DeriveAGuarded(rA, nn) == rA

\* self.A = ( 2 pi / m - pi + C ) / ( n - 1 ), rA standing for the cosine
\* and sine of the quotient.  The dividend is a NumPy double: dividing it
\* by n - 1 = 0 raises nothing and yields a non-finite A.
DeriveA(rA, nn) == IF nn - 1 = 0 THEN NaNRot ELSE rA

\* np.sin( angle ) / np.sin( self.C ), v standing for the ratio; the sine of
\* a non-finite angle is not a number
SideRatio(angle, v) == IF angle.d = 0 THEN NaN ELSE Num(v)

\* MultiTriangleTiling( C, n, m ).  rC and rA stand for the cosine and sine
\* of C and of A, p for the side ratios sin A / sin C and sin B / sin C
\* ( B = pi - ( A + C ) is finite exactly when A is ).
Construct(rC, rA, nn, mm, p) ==
  /\ status = "new"
  /\ nn = 1 \/ p.deg = nn
  /\ cls' = "MultiTriangleTiling"
  /\ n' = nn /\ m' = mm
  /\ C' = rC
  /\ A' = DeriveA(rA, nn)
  /\ a' = SideRatio(A', p.a)
  /\ b' = SideRatio(A', p.b)
  /\ GetS(a', b', nn)
  /\ lastOp' = "__init__"
  /\ UNCHANGED << N, triangles, all_triangles, result, calls, nt_in, nt_out >>

\* RegularMultiTriangleTiling( A, m ): n = 1 and C = pi - 2 pi / m, for the
\* arm count m = 4 (C is a right angle, sin C = 1)
RegularConstruct(rA, p) ==
  /\ status = "new"
  /\ p.deg = 1
  /\ cls' = "RegularMultiTriangleTiling"
  /\ n' = 1 /\ m' = 4
  /\ A' = rA
  /\ C' = [c |-> 0, s |-> 1, d |-> 1]
  /\ a' = SideRatio(A', p.a)
  /\ b' = SideRatio(A', p.b)
  /\ GetS(a', b', 1)
  /\ lastOp' = "__init__"
  /\ UNCHANGED << N, triangles, all_triangles, result, calls, nt_in, nt_out >>

\* self.next_triangle( triangle ) for a triangle of self.triangles
NextTriangle(j) ==
  /\ status = "ready"
  /\ calls < MaxCalls
  /\ j \in 1..Len(triangles)
  /\ nt_in' = triangles[j]
  /\ nt_out' = next_triangle(Par, triangles[j])
  /\ err' = "none"
  /\ lastOp' = "next_triangle"
  /\ calls' = calls + 1
  /\ UNCHANGED << status, cls, n, m, A, C, a, b, s, N, triangles, all_triangles,
                  result >>

\* self.get_triangles( N )
GetTriangles(len) ==
  /\ status = "ready"
  /\ calls < MaxCalls
  /\ N' = len
  /\ triangles' = get_triangles(Par, triangles, len)
  /\ err' = "none"
  /\ lastOp' = "get_triangles"
  /\ calls' = calls + 1
  /\ UNCHANGED << status, cls, n, m, A, C, a, b, s, all_triangles, result, nt_in,
                  nt_out >>

\* self.get_all_triangles( N )
GetAllTriangles(len) ==
  /\ status = "ready"
  /\ calls < MaxCalls
  /\ LET st == get_all_triangles(Par, triangles, len)
     IN  /\ N' = len
         /\ triangles' = st.triangles
         /\ all_triangles' = st.all
         /\ err' = st.err
         /\ result' = IF st.err = "none" THEN st.all ELSE <<>>
  /\ lastOp' = "get_all_triangles"
  /\ calls' = calls + 1
  /\ UNCHANGED << status, cls, n, m, A, C, a, b, s, nt_in, nt_out >>

Next ==
  \/ \E rC \in RotsC, rA \in Rots, nn \in Depths, mm \in Arms, p \in Polys :
       Construct(rC, rA, nn, mm, p)
  \/ \E rA \in Rots, p \in Polys : RegularConstruct(rA, p)
  \/ \E j \in 1..MaxN : NextTriangle(j)
  \/ \E len \in 0..MaxN : GetTriangles(len)
  \/ \E len \in 0..MaxN : GetAllTriangles(len)

Spec == Init /\ [][Next]_vars

(* ----------------------------- properties ----------------------------- *)

\* the squared distance of two points
Dist2(p, q) == (p[1] - q[1]) * (p[1] - q[1]) + (p[2] - q[2]) * (p[2] - q[2])

\* the three sides of a triangle, as pairs of rows
Sides == { <<0, 1>>, <<1, 2>>, <<0, 2>> }

\* the arm a new instance with the same attributes builds for length len
FreshArm(len) == get_triangles(Par, <<>>, len)

\* what a new instance with the same attributes gets from
\* get_all_triangles( len )
FreshAll(len) == get_all_triangles(Par, <<>>, len)

\* an array of triangles into which no triangle was written
Blank(arr) == arr = Zeros(Len(arr))

\* C1: in the arm built by get_triangles( N ), N >= 1, the first triangle has
\* P_C = ( 0, 0 ) and the P_C of every further triangle i + 1 is the P_B of
\* the triangle i before it.
C1_EdgeMatching ==
  (status = "ready" /\ N >= 1) =>
    /\ At(triangles, 0, 0) = Origin
    /\ \A i \in 0..(N - 2) : At(triangles, i + 1, 0) = At(triangles, i, 1)

\* an arm of at least three triangles whose second and third triangle are
\* away from the origin and from each other
C1_Witness ==
  /\ status = "ready" /\ lastOp = "get_triangles" /\ N >= 3
  /\ At(triangles, 1, 0) # Origin
  /\ At(triangles, 2, 0) # At(triangles, 1, 0)
  /\ At(triangles, 2, 0) # Sub(At(triangles, 1, 1), At(triangles, 1, 0))

C3_ArmZeroUnmodified ==
  (status = "ready" /\ lastOp = "get_all_triangles" /\ err = "none") =>
    /\ all_triangles[1] = FreshArm(N)
    /\ result[1] = FreshArm(N)
    /\ triangles = FreshArm(N)

\* a returned tiling of four arms of which arm 1 is not arm 0
C3_Witness ==
  /\ status = "ready" /\ lastOp = "get_all_triangles" /\ err = "none"
  /\ m = 4 /\ N >= 2
  /\ all_triangles[2] # all_triangles[1]
  /\ all_triangles[4] # Zeros(N)

\* C4: in the arm built by get_triangles( N ), every side of the triangle
\* i + 1 is s = k/2 times the same side of the triangle i (stated on the
\* squares of the lengths).
C4_SidesScaleByS ==
  (status = "ready" /\ N >= 2) =>
    \A i \in 0..(N - 2) : \A e \in Sides :
      4 * Dist2(At(triangles, i + 1, e[1]), At(triangles, i + 1, e[2]))
        = s[1] * s[1] * Dist2(At(triangles, i, e[1]), At(triangles, i, e[2]))

\* an arm of three triangles built with s = 1/2 and a rotation that is not
\* a quarter turn
C4_Witness ==
  /\ status = "ready" /\ lastOp = "get_triangles" /\ N >= 3
  /\ s = <<1>> /\ A.d = 5
  /\ At(triangles, 1, 0) # Origin

\* C5, as amended: get_all_triangles( N ) with 0 <= N < n and m >= 2 fails
\* with an IndexError, returns nothing and leaves every arm i >= 1 of
\* self.all_triangles as allocated; with m = 1 it raises nothing.
C5_ShortArmFails ==
  (status = "ready" /\ lastOp = "get_all_triangles" /\ N < n) =>
    IF m >= 2
      THEN /\ err = "IndexError"
           /\ result = <<>>
           /\ \A i \in 2..m : all_triangles[i] = Zeros(N)
      ELSE err = "none"

\* a failed get_all_triangles( 2 ) on a tiling with n = 3 and four arms
C5_Witness ==
  /\ status = "ready" /\ lastOp = "get_all_triangles"
  /\ N = 2 /\ n = 3 /\ m = 4 /\ err = "IndexError"

\* C5, as claimed: get_all_triangles( N ) with N < n fails with an
\* InsufficientSequenceLengthError, returns nothing and has stored no arm
\* i >= 1.
C5_Original ==
  (status = "ready" /\ lastOp = "get_all_triangles" /\ N < n) =>
    /\ err = "InsufficientSequenceLengthError"
    /\ result = <<>>
    /\ \A i \in 2..m : all_triangles[i] = Zeros(N)

\* C6, as amended: an error of the construction leaves no triangle behind,
\* but an error of the first get_all_triangles( N ) is raised after the N
\* triangles of the arm were written to self.triangles and to arm 0 of
\* self.all_triangles, and before any other arm is written.
C6_ErrorsAfterArmZero ==
  /\ status = "failed" =>
       (err # "none" /\ N = 0 - 1 /\ triangles = <<>> /\ all_triangles = <<>>)
  /\ (status = "ready" /\ calls = 1 /\ lastOp = "get_all_triangles"
        /\ err # "none") =>
       /\ triangles = FreshArm(N)
       /\ all_triangles[1] = triangles
       /\ \A i \in 2..m : Blank(all_triangles[i])
       /\ result = <<>>

\* the first call, get_all_triangles( 2 ) with n = 3, has failed and has left
\* two triangles in self.triangles
C6_Witness ==
  /\ status = "ready" /\ calls = 1 /\ lastOp = "get_all_triangles"
  /\ err # "none" /\ N = 2 /\ ~Blank(triangles)

\* C6, as claimed: when the construction or the get_all_triangles( N ) that
\* follows it ends in an error, no triangle has been written to
\* self.triangles or to self.all_triangles.
C6_Original ==
  (calls <= 1 /\ err # "none") =>
    /\ Blank(triangles)
    /\ \A i \in 1..Len(all_triangles) : Blank(all_triangles[i])

\* C7, as claimed: when the equation has no root or several roots s with
\* 0 < s < 1, get_s fails and stores no s; an s that is stored is the only
\* root with 0 < s < 1.
C7_Original ==
  (status # "new") =>
    LET inside == { k \in Roots(a, b, n) : 0 < k /\ k < 2 }
    IN  /\ Cardinality(inside) # 1 => (status = "failed" /\ s = <<>>)
        /\ s # <<>> => inside = { s[1] }

\* C8, as amended: MultiTriangleTiling( C, 1, m ) fails during construction
\* with the IndexError of get_s, after the division by n - 1 = 0 gave a
\* non-finite A and non-finite side ratios; no s is stored.
C8_DegenerateDepthFails ==
  (cls = "MultiTriangleTiling" /\ n = 1) =>
    /\ status = "failed"
    /\ err = "IndexError"
    /\ A = NaNRot /\ a = NaN /\ b = NaN
    /\ s = <<>>

\* a failed construction of the general tiling with n = 1
C8_Witness ==
  /\ cls = "MultiTriangleTiling" /\ n = 1 /\ lastOp = "__init__"
  /\ status = "failed"

\* C8, as claimed: MultiTriangleTiling( C, 1, m ) fails during construction
\* with a DegenerateParameterError.
C8_Original ==
  (cls = "MultiTriangleTiling" /\ n = 1) =>
    /\ status = "failed"
    /\ err = "DegenerateParameterError"

\* C9: whatever calls were made on the instance before, get_all_triangles( N )
\* returns (or raises) what a new instance with the same attributes returns
\* (or raises) for the same N.
C9_HistoryIndependent ==
  (status = "ready" /\ lastOp = "get_all_triangles") =>
    /\ err = FreshAll(N).err
    /\ err = "none" => result = FreshAll(N).all

\* a tiling returned by the third call on an instance
C9_Witness ==
  /\ status = "ready" /\ lastOp = "get_all_triangles" /\ err = "none"
  /\ calls >= 3 /\ N >= 2 /\ m >= 2

\* C10, as claimed: next_triangle( triangle ) returns a triangle whose P_C
\* is the P_B of its argument, wherever the P_C of the argument lies.
C10_Original ==
  (status = "ready" /\ lastOp = "next_triangle") => nt_out[1] = nt_in[2]

====
